---- MODULE Spec2Model ----
(***************************************************************************)
(* A model of lshash/storage.py: the storage factory, the three backends    *)
(* (InMemoryStorage, RedisStorage, SQLiteStorage), the serializers and the  *)
(* multi-level key derivation of the relational backend.                    *)
(*                                                                          *)
(* Strings that the code inspects character by character (bucket keys,      *)
(* Redis key names, LIKE and glob patterns) are sequences of one-character  *)
(* strings.  Python values are records tagged with their Python type, so    *)
(* that a tuple and a list with the same items are different values, as in  *)
(* Python.                                                                  *)
(***************************************************************************)
EXTENDS Integers, Sequences, FiniteSets, TLC

\* ------------------------------------------------------------------------
\* Python values
\* ------------------------------------------------------------------------

PyNone == [ty |-> "NoneType"]
PyBool(b) == [ty |-> "bool", b |-> b]
PyInt(n) == [ty |-> "int", n |-> n]
PyStr(s) == [ty |-> "str", s |-> s]
PyTuple(items) == [ty |-> "tuple", items |-> items]
PyList(items) == [ty |-> "list", items |-> items]

\* Python truthiness, as used by `if h_index:` and `if self.enabled_levels:`.
Truthy(v) ==
    CASE v.ty = "NoneType" -> FALSE
      [] v.ty = "bool" -> v.b
      [] v.ty = "int" -> v.n # 0
      [] v.ty = "str" -> v.s # ""
      [] OTHER -> Len(v.items) > 0

\* tuple(x) for a list or a tuple x.
ToTuple(v) == PyTuple(v.items)

Range(seq) == {seq[i] : i \in DOMAIN seq}

\* The elements of a Python set, listed in some order (the order of list(set)
\* and of Redis' SMEMBERS is unspecified; no formula below depends on it).
RECURSIVE SetToSeq(_)
SetToSeq(S) ==
    IF S = {} THEN <<>>
    ELSE LET x == CHOOSE y \in S : TRUE
         IN <<x>> \o SetToSeq(S \ {x})

\* Number of occurrences of x in a sequence.
Count(seq, x) == Cardinality({i \in DOMAIN seq : seq[i] = x})

\* ------------------------------------------------------------------------
\* Serializers (json, pickle) and the content hash
\* ------------------------------------------------------------------------

\* json.dumps: tuples and lists both become JSON arrays.  The JSON text is
\* kept as its document tree; equal trees are equal texts.
RECURSIVE JsonDumps(_)
JsonDumps(v) ==
    CASE v.ty = "int" -> [j |-> "number", n |-> v.n]
      [] v.ty = "str" -> [j |-> "string", s |-> v.s]
      [] OTHER -> [j |-> "array",
                   items |-> [i \in DOMAIN v.items |-> JsonDumps(v.items[i])]]

\* json.loads: every JSON array becomes a Python list.
RECURSIVE JsonLoads(_)
JsonLoads(d) ==
    CASE d.j = "number" -> PyInt(d.n)
      [] d.j = "string" -> PyStr(d.s)
      [] OTHER -> PyList([i \in DOMAIN d.items |-> JsonLoads(d.items[i])])

\* pickle.dumps / pickle.loads keep the Python type of every object.
PickleDumps(v) == [pickled |-> v]
PickleLoads(b) == b.pickled

\* serializer(protocol): "json" gives json; anything else gives joblib when
\* it was importable and pickle otherwise.
serializer(protocol, joblib) ==
    LET p == IF protocol.ty = "NoneType" THEN PyStr("pickle") ELSE protocol
    IN IF p = PyStr("json") THEN "json"
       ELSE IF joblib THEN "joblib" ELSE "pickle"

\* _compute_hash: the SHA-1 hex digest of the serialized bytes, taken to be
\* free of collisions on the values of the model.
_compute_hash(message) == [sha1 |-> message]

\* ------------------------------------------------------------------------
\* Levels and key derivation
\* ------------------------------------------------------------------------

Levels == <<"high", "medium", "low">>
LevelSet == {"high", "medium", "low"}

\* _LEVELS_KEY_COEFFICIENTS as exact fractions <<numerator, denominator>>:
\* 1.0, 0.75 and 0.5 are exact in binary floating point.
_LEVELS_KEY_COEFFICIENTS ==
    [level \in LevelSet |->
        CASE level = "high" -> <<1, 1>>
          [] level = "medium" -> <<3, 4>>
          [] OTHER -> <<1, 2>>]

\* key[start::2]
RECURSIVE SliceStep2(_, _)
SliceStep2(key, start) ==
    IF start > Len(key) THEN <<>>
    ELSE <<key[start]>> \o SliceStep2(key, start + 2)

\* key[:size]
Prefix(key, size) == SubSeq(key, 1, IF size < Len(key) THEN size ELSE Len(key))

\* _get_level_key_value taking the odd positions before the even ones.
_get_level_key_value_OddFirst(key, level) ==
    LET c == _LEVELS_KEY_COEFFICIENTS[level]
        size == (Len(key) * c[1]) \div c[2]
    IN IF level = "high" THEN Prefix(key, size)
       ELSE LET mixed_key == SliceStep2(key, 2) \o SliceStep2(key, 1)
            IN Prefix(mixed_key, size)

_get_level_key_value(key, level) ==
    LET c == _LEVELS_KEY_COEFFICIENTS[level]
        size == (Len(key) * c[1]) \div c[2]
    IN IF level = "high" THEN Prefix(key, size)
       ELSE LET mixed_key == SliceStep2(key, 1) \o SliceStep2(key, 2)
            IN Prefix(mixed_key, size)

_get_level_key_column(key_column, level) == key_column \o "_" \o level

\* ------------------------------------------------------------------------
\* Pattern matching done by the stores
\* ------------------------------------------------------------------------

\* SQLite folds the ASCII letters for LIKE.
AsciiLower(c) ==
    CASE c = "A" -> "a"
      [] c = "B" -> "b"
      [] OTHER -> c

Tail1(s) == SubSeq(s, 2, Len(s))

\* text LIKE pattern in SQLite: % matches any run of characters, _ matches
\* one character, every other character matches itself ignoring ASCII case.
RECURSIVE Like(_, _)
Like(text, pattern) ==
    IF pattern = <<>> THEN text = <<>>
    ELSE IF pattern[1] = "%"
         THEN Like(text, Tail1(pattern))
              \/ (text # <<>> /\ Like(Tail1(text), pattern))
    ELSE IF text = <<>> THEN FALSE
    ELSE IF pattern[1] = "_" THEN Like(Tail1(text), Tail1(pattern))
    ELSE AsciiLower(pattern[1]) = AsciiLower(text[1])
         /\ Like(Tail1(text), Tail1(pattern))

\* Redis KEYS glob: * matches any run of characters, ? matches one character,
\* every other character matches itself.
RECURSIVE GlobMatch(_, _)
GlobMatch(text, pattern) ==
    IF pattern = <<>> THEN text = <<>>
    ELSE IF pattern[1] = "*"
         THEN GlobMatch(text, Tail1(pattern))
              \/ (text # <<>> /\ GlobMatch(Tail1(text), pattern))
    ELSE IF text = <<>> THEN FALSE
    ELSE IF pattern[1] = "?" THEN GlobMatch(Tail1(text), Tail1(pattern))
    ELSE pattern[1] = text[1] /\ GlobMatch(Tail1(text), Tail1(pattern))

\* str.split(sep): the fields of s between the separators.
RECURSIVE Split(_, _)
Split(s, sep) ==
    IF \A i \in DOMAIN s : s[i] # sep THEN <<s>>
    ELSE LET i == CHOOSE n \in DOMAIN s :
                      s[n] = sep /\ \A m \in 1..(n - 1) : s[m] # sep
         IN <<SubSeq(s, 1, i - 1)>> \o Split(SubSeq(s, i + 1, Len(s)), sep)

\* ------------------------------------------------------------------------
\* State
\* ------------------------------------------------------------------------

VARIABLES
    libs,        \* which optional libraries were importable: [redis, joblib]
    inst,        \* the backend instance held in each slot, or NoInst
    dict_store,  \* InMemoryStorage.storage of each slot: key -> set of values
    redis_db,    \* the key-value server: key name -> set of members
    sql_db,      \* the relational databases: database -> table name -> table
    requested,   \* the last storage() call made for each slot
    outcome,     \* the last call and how it ended (see NoCall)
    appended,    \* the <<slot, key, value>> of every append_val that returned
    seen,        \* the <<raised, swallowed>> endings append_val has had
    ncalls,      \* number of append_val calls made so far
    writers,     \* concurrent writers: where each is in its append_val call
    sql_lock     \* the connection holding the database's write lock, or 0

vars == <<libs, inst, dict_store, redis_db, sql_db, requested, outcome,
          appended, seen, ncalls, writers, sql_lock>>

Slots == {1, 2}
NoInst == [kind |-> "none"]

\* The database a connection opens: ":memory:" is private to the connection,
\* a path names a file shared by every connection that opens it.
Connect(slot, database) ==
    IF database = ":memory:" THEN [path |-> database, owner |-> slot]
    ELSE [path |-> database, owner |-> 0]

Databases ==
    {Connect(s, ":memory:") : s \in Slots} \cup {Connect(0, "lsh.db")}

NoFunction == [x \in {} |-> x]

\* dict.update, also used for the other mappings of the model.
Update(f, g) ==
    [k \in DOMAIN f \cup DOMAIN g |-> IF k \in DOMAIN g THEN g[k] ELSE f[k]]

Returned == "none"

\* ------------------------------------------------------------------------
\* InMemoryStorage
\* ------------------------------------------------------------------------

InMemoryStorage_init(h_index) == [kind |-> "dict"]

InMemoryStorage_keys(storage) == SetToSeq(DOMAIN storage)

\* self.storage.setdefault(key, set()).update([val])
InMemoryStorage_append_val(storage, key, val) ==
    LET old == IF key \in DOMAIN storage THEN storage[key] ELSE {}
    IN Update(storage, [k \in {key} |-> old \cup {val}])

\* list(self.storage.get(key, []))
InMemoryStorage_get_list(storage, key) ==
    IF key \in DOMAIN storage THEN SetToSeq(storage[key]) ELSE <<>>

\* ------------------------------------------------------------------------
\* RedisStorage
\* ------------------------------------------------------------------------

DigitChar(d) ==
    CASE d = 0 -> "0" [] d = 1 -> "1" [] d = 2 -> "2" [] d = 3 -> "3"
      [] d = 4 -> "4" [] d = 5 -> "5" [] d = 6 -> "6" [] d = 7 -> "7"
      [] d = 8 -> "8" [] OTHER -> "9"

RECURSIVE Decimal(_)
Decimal(n) ==
    IF n < 10 THEN <<DigitChar(n)>>
    ELSE Decimal(n \div 10) \o <<DigitChar(n % 10)>>

\* 'h%.2i.' % int(h_index), for h_index >= 0: at least two digits.
RedisPrefix(h_index) ==
    LET d == Decimal(h_index.n)
    IN <<"h">> \o (IF Len(d) < 2 THEN <<"0">> \o d ELSE d) \o <<".">>

\* RedisStorage.__init__: [raised, inst]
RedisStorage_init(h_index, redis) ==
    IF ~redis THEN [raised |-> "ImportError", inst |-> NoInst]
    ELSE IF h_index.ty # "int" THEN [raised |-> "TypeError", inst |-> NoInst]
    ELSE [raised |-> Returned,
          inst |-> [kind |-> "redis", h_index |-> RedisPrefix(h_index)]]

RedisStorage_list(self, key) == self.h_index \o key

\* self.storage.keys(self.h_index + pattern), then split('.')[1] of each name
RedisStorage_keys(self, db, pattern) ==
    LET names == {n \in DOMAIN db : GlobMatch(n, self.h_index \o pattern)}
        listed == SetToSeq(names)
    IN [i \in DOMAIN listed |-> Split(listed[i], ".")[2]]

\* self.storage.sadd(self._list(key), json.dumps(val))
RedisStorage_append_val(self, db, key, val) ==
    LET name == RedisStorage_list(self, key)
        old == IF name \in DOMAIN db THEN db[name] ELSE {}
    IN Update(db, [n \in {name} |-> old \cup {JsonDumps(val)}])

\* the normalisation loop of get_list and the final tuple(el)
RedisNormalise(el) ==
    LET fixed == IF Len(el.items) = 2 /\ el.items[1].ty = "list"
                 THEN PyList(<<ToTuple(el.items[1]), el.items[2]>>)
                 ELSE el
    IN ToTuple(fixed)

RedisStorage_get_list(self, db, key) ==
    LET name == RedisStorage_list(self, key)
        members == IF name \in DOMAIN db THEN SetToSeq(db[name]) ELSE <<>>
    IN [i \in DOMAIN members |-> RedisNormalise(JsonLoads(members[i]))]

\* ------------------------------------------------------------------------
\* SQLiteStorage
\* ------------------------------------------------------------------------

\* self.config before the caller's options are merged in
SQLiteDefaultConfig ==
    [table |-> "lshash", key_column |-> "key", value_column |-> "value",
     database |-> ":memory:", serializer |-> PyNone, enabled_levels |-> PyNone]

value_hash_column(self) == self.config.value_column \o "_hash"
enabled_levels(self) == Truthy(self.config.enabled_levels)

KeyColumns(self) ==
    IF enabled_levels(self)
    THEN {_get_level_key_column(self.config.key_column, Levels[i]) : i \in 1..3}
    ELSE {self.config.key_column}

\* the column the unique index pairs with the value hash
UniqueKeyColumn(self) ==
    IF enabled_levels(self)
    THEN _get_level_key_column(self.config.key_column, "high")
    ELSE self.config.key_column

\* A table reference is the list of its dotted parts.  SQLite reads a single
\* part as a table name; `lshash.1` is the name lshash followed by the
\* numeric literal .1, which is a syntax error.
SqlIsTableName(ref) == Len(ref) = 1

\* _create_table: CREATE TABLE IF NOT EXISTS, then CREATE [UNIQUE] INDEX IF
\* NOT EXISTS on the key columns.  [raised, tables]
_create_table(self, tables, ref) ==
    IF ~SqlIsTableName(ref)
    THEN [raised |-> "OperationalError", tables |-> tables]
    ELSE IF ref[1] \in DOMAIN tables
    THEN \* the existing table is kept; an index on a column it lacks fails
         IF KeyColumns(self) \subseteq tables[ref[1]].columns
         THEN [raised |-> Returned, tables |-> tables]
         ELSE [raised |-> "OperationalError", tables |-> tables]
    ELSE [raised |-> Returned,
          tables |-> Update(tables,
              [t \in {ref[1]} |->
                  [columns |-> KeyColumns(self)
                       \cup {value_hash_column(self), self.config.value_column},
                   unique |-> {UniqueKeyColumn(self), value_hash_column(self)},
                   rows |-> <<>>]])]

\* The table reference __init__ hands to _create_table: the base name, and
\* for a truthy h_index the base name, a dot and the index.
CreatedTableRef(table, h_index) ==
    IF Truthy(h_index)
    THEN <<table, ".", ToString(h_index.n)>>
    ELSE <<table>>

\* SQLiteStorage.__init__: [raised, inst, tables]; `tables` are the tables of
\* the database the new connection opens.
SQLiteStorage_init(slot, config, h_index, joblib, db) ==
    LET merged == IF config.ty = "NoneType" THEN SQLiteDefaultConfig
                  ELSE Update(SQLiteDefaultConfig, config.options)
        protocol == IF config.ty = "NoneType" THEN PyNone
                    ELSE IF "serializer" \in DOMAIN config.options
                         THEN config.options.serializer ELSE PyNone
        connection == Connect(slot, merged.database)
        self == [kind |-> "sqlite",
                 config |-> Update(merged,
                     [serializer |-> serializer(protocol, joblib),
                      connection |-> connection])]
        ref == CreatedTableRef(self.config.table, h_index)
        made == _create_table(self, db[connection], ref)
    IN [raised |-> made.raised,
        inst |-> IF made.raised = Returned THEN self ELSE NoInst,
        connection |-> connection,
        tables |-> made.tables]

\* self.serializer.dumps(val): joblib has no dumps.
SerializerDumps(ser, val) ==
    CASE ser = "json" -> [raised |-> Returned, bytes |-> JsonDumps(val)]
      [] ser = "pickle" -> [raised |-> Returned, bytes |-> PickleDumps(val)]
      [] OTHER -> [raised |-> "AttributeError", bytes |-> PyNone]

SerializerLoads(ser, bytes) ==
    IF ser = "json" THEN JsonLoads(bytes) ELSE PickleLoads(bytes)

\* InsertRow with the Low key cut from the key itself, not from the
\* interleaved key.
InsertRow_LowFromRawKey(self, key, serialized_value) ==
    LET kc == self.config.key_column
        keys == IF enabled_levels(self)
                THEN [c \in KeyColumns(self) |->
                        CASE c = _get_level_key_column(kc, "high") ->
                                 _get_level_key_value(key, "high")
                          [] c = _get_level_key_column(kc, "medium") ->
                                 _get_level_key_value(key, "medium")
                          [] OTHER -> Prefix(key, Len(key) \div 2)]
                ELSE [c \in {kc} |-> key]
    IN Update(Update(keys, [c \in {self.config.value_column} |->
                               serialized_value]),
              [c \in {value_hash_column(self)} |->
                   _compute_hash(serialized_value)])

\* The row append_val inserts: the key columns, the value and its hash.
InsertRow(self, key, serialized_value) ==
    LET kc == self.config.key_column
        keys == IF enabled_levels(self)
                THEN [c \in KeyColumns(self) |->
                        CASE c = _get_level_key_column(kc, "high") ->
                                 _get_level_key_value(key, "high")
                          [] c = _get_level_key_column(kc, "medium") ->
                                 _get_level_key_value(key, "medium")
                          [] OTHER -> _get_level_key_value(key, "low")]
                ELSE [c \in {kc} |-> key]
        vc == self.config.value_column
    IN Update(Update(keys, [c \in {vc} |-> serialized_value]),
              [c \in {value_hash_column(self)} |->
                   _compute_hash(serialized_value)])

\* SqlInsert without the unique index: every row is stored.
SqlInsert_NoUniqueIndex(tables, name, row) ==
    IF name \notin DOMAIN tables
    THEN [raised |-> "OperationalError", tables |-> tables]
    ELSE IF ~(DOMAIN row \subseteq tables[name].columns)
    THEN [raised |-> "OperationalError", tables |-> tables]
    ELSE [raised |-> Returned,
          tables |-> [tables EXCEPT ![name].rows = Append(@, row)]]

\* The engine's INSERT: [raised, tables].  A row that agrees with a stored row
\* on every column of the unique index is refused with IntegrityError.
SqlInsert(tables, name, row) ==
    IF name \notin DOMAIN tables
    THEN [raised |-> "OperationalError", tables |-> tables]
    ELSE LET t == tables[name]
         IN IF ~(DOMAIN row \subseteq t.columns)
            THEN [raised |-> "OperationalError", tables |-> tables]
            ELSE IF \E i \in DOMAIN t.rows :
                        \A c \in t.unique : t.rows[i][c] = row[c]
            THEN [raised |-> "IntegrityError", tables |-> tables]
            ELSE [raised |-> Returned,
                  tables |-> [tables EXCEPT ![name].rows = Append(@, row)]]

\* append_val with `except Exception: pass` around the INSERT.
SQLiteStorage_append_val_SwallowAll(self, tables, key, val) ==
    LET dumped == SerializerDumps(self.config.serializer, val)
    IN IF dumped.raised # Returned
       THEN [raised |-> dumped.raised, swallowed |-> Returned, tables |-> tables]
       ELSE LET done == SqlInsert(tables, self.config.table,
                                  InsertRow(self, key, dumped.bytes))
            IN [raised |-> Returned, swallowed |-> done.raised,
                tables |-> done.tables]

\* SQLiteStorage.append_val: [raised, swallowed, tables]
SQLiteStorage_append_val(self, tables, key, val) ==
    LET dumped == SerializerDumps(self.config.serializer, val)
    IN IF dumped.raised # Returned
       THEN [raised |-> dumped.raised, swallowed |-> Returned, tables |-> tables]
       ELSE LET done == SqlInsert(tables, self.config.table,
                                  InsertRow(self, key, dumped.bytes))
            IN IF done.raised = "IntegrityError"
               THEN [raised |-> Returned, swallowed |-> "IntegrityError",
                     tables |-> done.tables]
               ELSE [raised |-> done.raised, swallowed |-> Returned,
                     tables |-> done.tables]

\* the column keys() and get_list() read for a level
LevelColumn(self, level) ==
    LET lv == IF level = "None" THEN "high" ELSE level
    IN IF enabled_levels(self)
       THEN _get_level_key_column(self.config.key_column, lv)
       ELSE self.config.key_column

\* SELECT without DISTINCT: one entry for every row.
Distinct_EveryRow(seq) == seq

\* SELECT DISTINCT(column): the first occurrence of each value, in row order
RECURSIVE Distinct(_)
Distinct(seq) ==
    IF seq = <<>> THEN <<>>
    ELSE LET front == SubSeq(seq, 1, Len(seq) - 1)
             last == seq[Len(seq)]
         IN IF last \in Range(front) THEN Distinct(front)
            ELSE Append(Distinct(front), last)

\* SQLiteStorage.keys: [raised, list]
SQLiteStorage_keys(self, tables, level) ==
    LET name == self.config.table
        col == LevelColumn(self, level)
    IN IF name \notin DOMAIN tables \/ col \notin tables[name].columns
       THEN [raised |-> "OperationalError", list |-> <<>>]
       ELSE LET rows == tables[name].rows
            IN [raised |-> Returned,
                list |-> Distinct([i \in DOMAIN rows |-> rows[i][col]])]

\* SQLiteStorage.get_list: [raised, list].  The normalisation loop runs over
\* the fetched rows, each a 1-tuple, so it never changes anything; the result
\* is tuple(val) of every deserialized value.
SQLiteStorage_get_list(self, tables, key, level) ==
    LET name == self.config.table
        col == LevelColumn(self, level)
    IN IF name \notin DOMAIN tables \/ col \notin tables[name].columns
       THEN [raised |-> "OperationalError", list |-> <<>>]
       ELSE IF self.config.serializer = "joblib"
               /\ \E i \in DOMAIN tables[name].rows :
                      Like(tables[name].rows[i][col], key)
       THEN [raised |-> "AttributeError", list |-> <<>>]
       ELSE LET rows == SelectSeq(tables[name].rows,
                                  LAMBDA r : Like(r[col], key))
            IN [raised |-> Returned,
                list |-> [i \in DOMAIN rows |->
                    ToTuple(SerializerLoads(self.config.serializer,
                                            rows[i]["value"]))]]

\* ------------------------------------------------------------------------
\* The factory
\* ------------------------------------------------------------------------

PyDict(map) == [ty |-> "dict", map |-> map]
SQLiteOptions(options) == [ty |-> "dict", options |-> options]

\* storage(storage_config, index): [raised, inst, connection, tables].
\* `'dict' in None` raises TypeError before any branch is taken.
storage(slot, storage_config, index, lib, db) ==
    LET none == [raised |-> Returned, inst |-> NoInst,
                 connection |-> Connect(slot, ":memory:"),
                 tables |-> db[Connect(slot, ":memory:")]]
    IN IF storage_config.ty = "NoneType"
       THEN [none EXCEPT !.raised = "TypeError"]
       ELSE IF "dict" \in DOMAIN storage_config.map
       THEN [none EXCEPT !.inst = InMemoryStorage_init(storage_config.map["dict"])]
       ELSE IF "redis" \in DOMAIN storage_config.map
       THEN LET r == RedisStorage_init(index, lib.redis)
            IN [none EXCEPT !.raised = r.raised, !.inst = r.inst]
       ELSE IF "sqlite" \in DOMAIN storage_config.map
       THEN SQLiteStorage_init(slot, storage_config.map["sqlite"], index,
                               lib.joblib, db)
       ELSE [none EXCEPT !.raised = "ValueError"]

\* ------------------------------------------------------------------------
\* Inputs
\* ------------------------------------------------------------------------

MaxAppends == 3

\* Bucket keys are the text of a hash code.  All keys of an index have one
\* length.  K0001 has the Medium and Low keys of K0000, K0100 only its Low
\* key; Ka000 and KA000 differ in letter case only.
K0000 == <<"0", "0", "0", "0">>
K0001 == <<"0", "0", "0", "1">>
K0100 == <<"0", "1", "0", "0">>
Ka000 == <<"a", "0", "0", "0">>
KA000 == <<"A", "0", "0", "0">>
BucketKeys == {K0000, K0001, K0100, Ka000, KA000}

\* A vector of two numbers, a vector of three, and a (vector, label) pair.
Vec12 == PyTuple(<<PyInt(1), PyInt(2)>>)
Vec345 == PyTuple(<<PyInt(3), PyInt(4), PyInt(5)>>)
Pair12a == PyTuple(<<Vec12, PyStr("a")>>)
Values == {Vec12, Vec345, Pair12a}

\* What get_list may be asked for: the bucket keys, their derived keys, a key
\* never appended, and LIKE patterns.
QueryKeys ==
    BucketKeys
    \cup {_get_level_key_value(k, l) : k \in BucketKeys, l \in LevelSet}
    \cup {<<"1", "1", "1", "1">>, <<"0", "0", "0", "_">>, <<"%">>}

LevelArgs == LevelSet \cup {"None"}

Indexes == {PyInt(0), PyInt(1)}

Descriptors ==
    {PyNone,
     PyDict(NoFunction),
     PyDict([mongo |-> PyNone]),
     PyDict([dict |-> PyNone]),
     PyDict([dict |-> PyNone, sqlite |-> PyNone]),
     PyDict([redis |-> PyNone]),
     PyDict([sqlite |-> PyNone]),
     PyDict([sqlite |-> SQLiteOptions([serializer |-> PyStr("json")])]),
     PyDict([sqlite |-> SQLiteOptions([enabled_levels |-> PyBool(TRUE)])]),
     PyDict([sqlite |-> SQLiteOptions([serializer |-> PyStr("json"),
                                       enabled_levels |-> PyBool(TRUE)])])}

\* ------------------------------------------------------------------------
\* Actions
\* ------------------------------------------------------------------------

\* outcome: the operation, its slot and arguments, the exception it raised
\* (or Returned), the exception it swallowed, whether the same append_val had
\* returned before (repeat) and whether it was the call just before (again).
NoCall == [op |-> "none", slot |-> 0, args |-> <<>>, raised |-> Returned,
           swallowed |-> Returned, repeat |-> FALSE, again |-> FALSE]

\* A writer: its place in append_val (pc), the arguments and locals of the
\* call, how the last finished call ended, and whether the call overlapped a
\* call of the other writer with the same arguments (raced).
IdleWriter == [pc |-> "idle", key |-> <<>>, val |-> PyNone, bytes |-> PyNone,
               finished |-> FALSE, raised |-> Returned,
               swallowed |-> Returned, raced |-> FALSE]

NoRequest == [made |-> FALSE, config |-> PyNone, index |-> PyNone,
              raised |-> Returned]

Init ==
    /\ libs \in [redis : BOOLEAN, joblib : BOOLEAN]
    /\ inst = [s \in Slots |-> NoInst]
    /\ dict_store = [s \in Slots |-> NoFunction]
    /\ redis_db = NoFunction
    /\ sql_db = [d \in Databases |-> NoFunction]
    /\ requested = [s \in Slots |-> NoRequest]
    /\ outcome = NoCall
    /\ appended = {}
    /\ seen = {}
    /\ ncalls = 0
    /\ writers = [w \in Slots |-> IdleWriter]
    /\ sql_lock = 0

\* A call storage(storage_config, index) whose result, if any, is kept in slot.
Storage(slot, storage_config, index) ==
    /\ inst[slot] = NoInst
    /\ LET r == storage(slot, storage_config, index, libs, sql_db)
       IN /\ inst' = [inst EXCEPT ![slot] = r.inst]
          /\ sql_db' = [sql_db EXCEPT ![r.connection] = r.tables]
          /\ requested' = [requested EXCEPT ![slot] =
                               [made |-> TRUE, config |-> storage_config,
                                index |-> index, raised |-> r.raised]]
          /\ outcome' = [NoCall EXCEPT !.op = "storage", !.slot = slot,
                             !.args = <<storage_config, index>>,
                             !.raised = r.raised]
    /\ UNCHANGED <<libs, dict_store, redis_db, appended, seen, ncalls,
                   writers, sql_lock>>

AppendCall(slot, key, val, raised, swallowed) ==
    /\ outcome' = [NoCall EXCEPT !.op = "append_val", !.slot = slot,
                       !.args = <<key, val>>, !.raised = raised,
                       !.swallowed = swallowed,
                       !.repeat = (<<slot, key, val>> \in appended),
                       !.again = (/\ outcome.op = "append_val"
                                  /\ outcome.slot = slot
                                  /\ outcome.args = <<key, val>>
                                  /\ outcome.raised = Returned)]
    /\ appended' = IF raised = Returned
                   THEN appended \cup {<<slot, key, val>>} ELSE appended
    /\ seen' = seen \cup {<<raised, swallowed>>}
    /\ ncalls' = ncalls + 1

DictAppendVal(slot, key, val) ==
    /\ inst[slot].kind = "dict"
    /\ ncalls < MaxAppends
    /\ dict_store' = [dict_store EXCEPT
                         ![slot] = InMemoryStorage_append_val(@, key, val)]
    /\ AppendCall(slot, key, val, Returned, Returned)
    /\ UNCHANGED <<libs, inst, redis_db, sql_db, requested, writers, sql_lock>>

RedisAppendVal(slot, key, val) ==
    /\ inst[slot].kind = "redis"
    /\ ncalls < MaxAppends
    /\ redis_db' = RedisStorage_append_val(inst[slot], redis_db, key, val)
    /\ AppendCall(slot, key, val, Returned, Returned)
    /\ UNCHANGED <<libs, inst, dict_store, sql_db, requested, writers,
                   sql_lock>>

SQLiteAppendVal(slot, key, val) ==
    /\ inst[slot].kind = "sqlite"
    /\ ncalls < MaxAppends
    /\ LET c == inst[slot].config.connection
           r == SQLiteStorage_append_val(inst[slot], sql_db[c], key, val)
       IN /\ sql_db' = [sql_db EXCEPT ![c] = r.tables]
          /\ AppendCall(slot, key, val, r.raised, r.swallowed)
    /\ UNCHANGED <<libs, inst, dict_store, redis_db, requested, writers,
                   sql_lock>>

Next ==
    \/ \E d \in Descriptors, i \in Indexes : Storage(1, d, i)
    \/ \E k \in BucketKeys, v \in Values : DictAppendVal(1, k, v)
    \/ \E k \in BucketKeys, v \in Values : RedisAppendVal(1, k, v)
    \/ \E k \in BucketKeys, v \in Values : SQLiteAppendVal(1, k, v)

Spec == Init /\ [][Next]_vars

\* Two instances built against one store: the key-value server, or the
\* relational database file lsh.db.
SharedDescriptors ==
    {PyDict([redis |-> PyNone]),
     PyDict([sqlite |-> SQLiteOptions([database |-> "lsh.db"])]),
     PyDict([sqlite |-> SQLiteOptions([database |-> "lsh.db",
                                       enabled_levels |-> PyBool(TRUE)])])}
SharedKeys == {K0000, K0001}
SharedValues == {Vec12, Pair12a}

NextShared ==
    \/ \E s \in Slots, d \in SharedDescriptors, i \in Indexes : Storage(s, d, i)
    \/ \E s \in Slots, k \in SharedKeys, v \in SharedValues :
           RedisAppendVal(s, k, v)
    \/ \E s \in Slots, k \in SharedKeys, v \in SharedValues :
           SQLiteAppendVal(s, k, v)

SpecShared == Init /\ [][NextShared]_vars

\* ------------------------------------------------------------------------
\* Multi-level keys
\* ------------------------------------------------------------------------

MaxKeyLen == 5

\* The relational backend with levels enabled, fed keys of every length up to
\* MaxKeyLen whose characters all differ (so that every position of a derived
\* key shows where it came from) and keys of one length that share derived
\* keys.
HexDigits == <<"0", "1", "2", "3", "4", "5", "6", "7", "8", "9">>
LevelKeys ==
    {SubSeq(HexDigits, 1, n) : n \in 0..MaxKeyLen} \cup {K0000, K0001, K0100}
LevelValues == {Vec12, Pair12a}
LevelDescriptors ==
    {PyDict([sqlite |-> SQLiteOptions([enabled_levels |-> PyBool(TRUE)])]),
     PyDict([sqlite |-> SQLiteOptions([serializer |-> PyStr("json"),
                                       enabled_levels |-> PyBool(TRUE)])])}

NextLevels ==
    \/ \E d \in LevelDescriptors : Storage(1, d, PyInt(0))
    \/ \E k \in LevelKeys, v \in LevelValues : SQLiteAppendVal(1, k, v)

SpecLevels == Init /\ [][NextLevels]_vars

\* ------------------------------------------------------------------------
\* Database faults
\* ------------------------------------------------------------------------

\* The relational backend on a database file whose table another process
\* may drop: entries persist until the medium is cleared externally.
FaultDescriptors ==
    {PyDict([sqlite |-> SQLiteOptions([database |-> "lsh.db"])]),
     PyDict([sqlite |-> SQLiteOptions([database |-> "lsh.db",
                                       enabled_levels |-> PyBool(TRUE)])])}
FaultKeys == {K0000, K0001, K0100}

ExternalDropTable(slot) ==
    /\ inst[slot].kind = "sqlite"
    /\ LET c == inst[slot].config.connection
           t == inst[slot].config.table
       IN /\ t \in DOMAIN sql_db[c]
          /\ sql_db' = [sql_db EXCEPT
                   ![c] = [n \in DOMAIN sql_db[c] \ {t} |-> sql_db[c][n]]]
    /\ outcome' = NoCall
    /\ UNCHANGED <<libs, inst, dict_store, redis_db, requested, appended,
                   seen, ncalls, writers, sql_lock>>

NextFault ==
    \/ \E d \in FaultDescriptors : Storage(1, d, PyInt(0))
    \/ \E k \in FaultKeys, v \in Values : SQLiteAppendVal(1, k, v)
    \/ ExternalDropTable(1)

SpecFault == Init /\ [][NextFault]_vars

\* ------------------------------------------------------------------------
\* Concurrent writers
\* ------------------------------------------------------------------------

\* Two writers, each with its own instance (its own connection or client)
\* on the same store and the same index, call append_val concurrently.  A
\* call is split where another writer can run in between: after the value
\* is serialized, and, on the relational backend, between the INSERT and
\* the commit that ends `with self.connection`.  SQLite lets one connection
\* write at a time; a second writer waits for the lock (sqlite3's busy
\* timeout is not modelled, the wait is).
RaceDescriptors == SharedDescriptors
RaceKeys == {K0000, K0001}
RaceValues == {Vec12, Pair12a}

InitRace ==
    /\ libs = [redis |-> TRUE, joblib |-> FALSE]
    /\ \E d \in RaceDescriptors :
          LET db0 == [c \in Databases |-> NoFunction]
              r1 == storage(1, d, PyInt(0), libs, db0)
              db1 == [db0 EXCEPT ![r1.connection] = r1.tables]
              r2 == storage(2, d, PyInt(0), libs, db1)
          IN /\ inst = <<r1.inst, r2.inst>>
             /\ sql_db = [db1 EXCEPT ![r2.connection] = r2.tables]
             /\ requested = [s \in Slots |->
                                [made |-> TRUE, config |-> d,
                                 index |-> PyInt(0), raised |-> Returned]]
    /\ dict_store = [s \in Slots |-> NoFunction]
    /\ redis_db = NoFunction
    /\ outcome = NoCall
    /\ appended = {}
    /\ seen = {}
    /\ ncalls = 0
    /\ writers = [w \in Slots |-> IdleWriter]
    /\ sql_lock = 0

InFlight(w) == writers[w].pc # "idle"

Overlaps(w, key, val) ==
    \E o \in Slots \ {w} :
        InFlight(o) /\ writers[o].key = key /\ writers[o].val = val

\* append_val is entered.
WriterCall(w, key, val) ==
    /\ writers[w].pc = "idle"
    /\ ncalls < MaxAppends
    /\ writers' = [o \in Slots |->
           IF o = w
           THEN [IdleWriter EXCEPT !.pc = "dumps", !.key = key, !.val = val,
                                   !.raced = Overlaps(w, key, val)]
           ELSE IF InFlight(o) /\ writers[o].key = key /\ writers[o].val = val
           THEN [writers[o] EXCEPT !.raced = TRUE]
           ELSE writers[o]]
    /\ ncalls' = ncalls + 1
    /\ UNCHANGED <<libs, inst, dict_store, redis_db, sql_db, requested,
                   outcome, appended, seen, sql_lock>>

\* json.dumps(val) of RedisStorage.append_val; self.serializer.dumps(val)
\* and _compute_hash of SQLiteStorage.append_val.
WriterDumps(w) ==
    /\ writers[w].pc = "dumps"
    /\ LET d == IF inst[w].kind = "redis"
                THEN [raised |-> Returned, bytes |-> JsonDumps(writers[w].val)]
                ELSE SerializerDumps(inst[w].config.serializer,
                                     writers[w].val)
       IN writers' = [writers EXCEPT
              ![w].bytes = d.bytes,
              ![w].raised = d.raised,
              ![w].finished = (d.raised # Returned),
              ![w].pc = IF d.raised # Returned THEN "idle"
                        ELSE IF inst[w].kind = "redis" THEN "sadd"
                        ELSE "execute"]
    /\ UNCHANGED <<libs, inst, dict_store, redis_db, sql_db, requested,
                   outcome, appended, seen, ncalls, sql_lock>>

\* self.storage.sadd(...): one command, atomic at the server.
WriterSadd(w) ==
    /\ writers[w].pc = "sadd"
    /\ redis_db' = RedisStorage_append_val(inst[w], redis_db, writers[w].key,
                                           writers[w].val)
    /\ writers' = [writers EXCEPT ![w].pc = "idle", ![w].finished = TRUE]
    /\ UNCHANGED <<libs, inst, dict_store, sql_db, requested, outcome,
                   appended, seen, ncalls, sql_lock>>

\* con.execute(sql, params) inside `with self.connection`: the INSERT takes
\* the write lock and is checked against the unique index; IntegrityError
\* is caught.  Any other error leaves the `with` block and rolls back.
WriterExecute(w) ==
    /\ writers[w].pc = "execute"
    /\ sql_lock = 0
    /\ LET c == inst[w].config.connection
           r == SqlInsert(sql_db[c], inst[w].config.table,
                          InsertRow(inst[w], writers[w].key, writers[w].bytes))
       IN /\ sql_db' = [sql_db EXCEPT ![c] = r.tables]
          /\ writers' = [writers EXCEPT
                 ![w].raised = IF r.raised = "IntegrityError" THEN Returned
                               ELSE r.raised,
                 ![w].swallowed = IF r.raised = "IntegrityError"
                                  THEN r.raised ELSE Returned,
                 ![w].pc = "commit"]
    /\ sql_lock' = w
    /\ UNCHANGED <<libs, inst, dict_store, redis_db, requested, outcome,
                   appended, seen, ncalls>>

\* the end of `with self.connection`: commit (or rollback), lock released.
WriterCommit(w) ==
    /\ writers[w].pc = "commit"
    /\ sql_lock = w
    /\ sql_lock' = 0
    /\ writers' = [writers EXCEPT ![w].pc = "idle", ![w].finished = TRUE]
    /\ UNCHANGED <<libs, inst, dict_store, redis_db, sql_db, requested,
                   outcome, appended, seen, ncalls>>

NextRace ==
    \/ \E w \in Slots, k \in RaceKeys, v \in RaceValues : WriterCall(w, k, v)
    \/ \E w \in Slots : WriterDumps(w)
    \/ \E w \in Slots : WriterSadd(w)
    \/ \E w \in Slots : WriterExecute(w)
    \/ \E w \in Slots : WriterCommit(w)

SpecRace == InitRace /\ [][NextRace]_vars

\* ------------------------------------------------------------------------
\* The storage interface, read in the current state
\* ------------------------------------------------------------------------

LevelText(level) ==
    CASE level = "high" -> <<"h", "i", "g", "h">>
      [] level = "medium" -> <<"m", "e", "d", "i", "u", "m">>
      [] OTHER -> <<"l", "o", "w">>

\* get_list(key, level) of the instance in slot: [raised, list]
get_list(slot, key, level) ==
    LET self == inst[slot]
    IN CASE self.kind = "dict" ->
              [raised |-> Returned,
               list |-> InMemoryStorage_get_list(dict_store[slot], key)]
         [] self.kind = "redis" ->
              [raised |-> Returned,
               list |-> RedisStorage_get_list(self, redis_db, key)]
         [] OTHER ->
              SQLiteStorage_get_list(self, sql_db[self.config.connection],
                                     key, level)

\* keys(level) of the instance in slot, level "None" being keys(): [raised,
\* list].  RedisStorage.keys takes the pattern as its first parameter, so a
\* level passed by position is used as the pattern.
keys(slot, level) ==
    LET self == inst[slot]
    IN CASE self.kind = "dict" ->
              [raised |-> Returned,
               list |-> InMemoryStorage_keys(dict_store[slot])]
         [] self.kind = "redis" ->
              [raised |-> Returned,
               list |-> RedisStorage_keys(self, redis_db,
                            IF level = "None" THEN <<"*">>
                            ELSE LevelText(level))]
         [] OTHER ->
              SQLiteStorage_keys(self, sql_db[self.config.connection], level)

Constructed == {s \in Slots : inst[s].kind # "none"}

\* A list compared by content, ignoring order.
SeqBag(seq) == [x \in Range(seq) |-> Count(seq, x)]

NoDuplicates(seq) == \A i, j \in DOMAIN seq : seq[i] = seq[j] => i = j

\* ------------------------------------------------------------------------
\* Claims
\* ------------------------------------------------------------------------

\* C1: when append_val(k, v) is called again right after a call
\* append_val(k, v) that returned, on any backend and from any reachable
\* store state, the second call returns too and get_list(k) has the same
\* content (as a bag, ignoring order) after it as before it.
C1_IdempotentAppend ==
    [][\A s \in Slots : \A k \in BucketKeys :
          (/\ outcome'.op = "append_val" /\ outcome'.again
           /\ outcome'.slot = s /\ outcome'.args[1] = k)
          => /\ outcome'.raised = Returned
             /\ get_list(s, k, "None").raised = Returned
             /\ get_list(s, k, "None")'.raised = Returned
             /\ SeqBag(get_list(s, k, "None").list)'
                  = SeqBag(get_list(s, k, "None").list)
      ]_vars

\* C1 witness: a second append_val in succession has returned on the
\* relational backend with levels enabled, and its bucket holds one entry.
C1_Witness ==
    /\ outcome.op = "append_val" /\ outcome.again
    /\ inst[outcome.slot].kind = "sqlite"
    /\ enabled_levels(inst[outcome.slot])
    /\ Len(get_list(outcome.slot, outcome.args[1], "None").list) = 1

\* C2: on every backend and with every serializer, get_list(k) returns
\* without raising and contains a value equal to v for every append_val(k, v)
\* that has returned; a (vector, label) pair comes back as the pair of the
\* vector as a tuple and the label.
C2_RoundTripFidelity ==
    \A a \in appended :
        /\ get_list(a[1], a[2], "None").raised = Returned
        /\ a[3] \in Range(get_list(a[1], a[2], "None").list)

\* C3: for a key never passed to append_val, get_list returns an empty list
\* without raising and keys() does not list the key.
C3_EmptyBucketClosure ==
    \A s \in Constructed : \A k \in QueryKeys :
        (\A a \in appended : ~(a[1] = s /\ a[2] = k))
        => /\ get_list(s, k, "None") = [raised |-> Returned, list |-> <<>>]
           /\ keys(s, "None").raised = Returned
           /\ k \notin Range(keys(s, "None").list)

\* The store a storage() call names, for the backends that share one: the
\* key-value server, or the database file of the relational backend.
StoreOf(config) ==
    IF config.ty = "NoneType" THEN "none"
    ELSE IF "dict" \in DOMAIN config.map THEN "none"
    ELSE IF "redis" \in DOMAIN config.map THEN "redis server"
    ELSE IF "sqlite" \in DOMAIN config.map
    THEN LET o == config.map["sqlite"]
         IN IF o.ty = "NoneType" THEN "none"
            ELSE IF "database" \in DOMAIN o.options
                    /\ o.options["database"] # ":memory:"
            THEN o.options["database"] ELSE "none"
    ELSE "none"

\* Instances s and t were asked for with different index identifiers against
\* the same store.
SameStoreOtherIndex(s, t) ==
    /\ s # t
    /\ requested[s].made /\ requested[t].made
    /\ StoreOf(requested[s].config) # "none"
    /\ StoreOf(requested[s].config) = StoreOf(requested[t].config)
    /\ requested[s].index # requested[t].index

\* s observes nothing that was appended only through t.
Isolated(s, t) ==
    /\ keys(s, "None").raised = Returned
    /\ \A a \in appended :
          (a[1] = t /\ \A b \in appended : ~(b[1] = s /\ b[2] = a[2]))
          => a[2] \notin Range(keys(s, "None").list)
    /\ \A a \in appended :
          (a[1] = t /\ \A b \in appended : ~(b[1] = s /\ b[3] = a[3]))
          => \A k \in QueryKeys :
                /\ get_list(s, k, "None").raised = Returned
                /\ \A i \in DOMAIN get_list(s, k, "None").list :
                      get_list(s, k, "None").list[i].items # a[3].items

\* The client library the backend named by config needs was importable.
LibraryAvailable(config) ==
    (config.ty = "dict" /\ "dict" \notin DOMAIN config.map
     /\ "redis" \in DOMAIN config.map) => libs.redis

\* C4: two instances asked for with different index identifiers against the
\* same store (one key-value server, one relational database) both exist,
\* provided the client library is available, and after any interleaving of
\* appends through them neither lists in keys() a key, nor returns from
\* get_list a value, that was appended only through the other.
C4_NamespaceIsolation ==
    \A s, t \in Slots :
        (SameStoreOtherIndex(s, t) /\ LibraryAvailable(requested[s].config))
        => /\ inst[s].kind # "none" /\ inst[t].kind # "none"
           /\ Isolated(s, t)

\* C5: get_list(key, level) never returns two equal values, for any key
\* string and any level, on any backend; in particular not on the relational
\* backend with levels enabled when one value was appended under several
\* bucket keys that share a Medium or Low key.
C5_NoDuplicates ==
    \A s \in Constructed : \A k \in QueryKeys : \A l \in LevelArgs :
        get_list(s, k, l).raised = Returned
        => NoDuplicates(get_list(s, k, l).list)

\* The bucket keys passed to an append_val of slot s that returned.
AppendedKeys(s) == {a[2] : a \in {b \in appended : b[1] = s}}

\* C6: keys() at the default level returns without raising and lists each
\* bucket key that an append_val was given, the same string, exactly once,
\* and nothing else.
C6_KeysExact ==
    \A s \in Constructed :
        /\ keys(s, "None").raised = Returned
        /\ NoDuplicates(keys(s, "None").list)
        /\ Range(keys(s, "None").list) = AppendedKeys(s)

\* C6 witness: a bucket of an external backend that got two distinct values
\* and then a repeated append, keys() listing it once.
C6_Witness ==
    \E s \in Constructed :
        /\ inst[s].kind \in {"redis", "sqlite"}
        /\ Cardinality(AppendedKeys(s)) = 1
        /\ Len(keys(s, "None").list) = 1
        /\ \E a, b \in appended : a[1] = s /\ b[1] = s /\ a[2] = b[2] /\ a[3] # b[3]
        /\ outcome.op = "append_val" /\ outcome.repeat

\* C7: on the relational backend with levels enabled, for every inserted
\* bucket key k, every value get_list(k, High) returns is also returned by
\* get_list(low(k), Low), low(k) being the Low-derived key of k.
C7_MonotonicCoarsening ==
    \A s \in Constructed :
        (inst[s].kind = "sqlite" /\ enabled_levels(inst[s]))
        => \A k \in AppendedKeys(s) :
              LET high == get_list(s, k, "high")
                  low == get_list(s, _get_level_key_value(k, "low"), "low")
              IN /\ high.raised = Returned
                 /\ low.raised = Returned
                 /\ Range(high.list) \subseteq Range(low.list)

\* C7 witness: two inserted keys with different High keys and one Low key,
\* so that the Low read returns more than the High read.
C7_Witness ==
    \E s \in Constructed :
        /\ inst[s].kind = "sqlite" /\ enabled_levels(inst[s])
        /\ K0100 \in AppendedKeys(s)
        /\ Len(get_list(s, K0100, "high").list) = 1
        /\ Len(get_list(s, _get_level_key_value(K0100, "low"), "low").list) = 2

\* The number of stored copies of val in the bucket key of the store that
\* the instance in slot s writes.
Copies(s, key, val) ==
    IF inst[s].kind = "redis"
    THEN LET name == RedisStorage_list(inst[s], key)
         IN IF name \in DOMAIN redis_db /\ JsonDumps(val) \in redis_db[name]
            THEN 1 ELSE 0
    ELSE LET t == sql_db[inst[s].config.connection][inst[s].config.table]
             bytes == SerializerDumps(inst[s].config.serializer, val).bytes
         IN Cardinality({i \in DOMAIN t.rows :
                /\ t.rows[i][UniqueKeyColumn(inst[s])] = key
                /\ t.rows[i][inst[s].config.value_column] = bytes})

EngineAnswer(s, key, val) ==
    SqlInsert(sql_db[inst[s].config.connection], inst[s].config.table,
              InsertRow(inst[s], key,
                        SerializerDumps(inst[s].config.serializer, val).bytes))

\* C9: when the INSERT of a relational append_val is refused with a
\* uniqueness violation, append_val returns normally and the stored rows are
\* what they were; when it fails with any other database error, append_val
\* raises that error and the stored rows are what they were; nothing else is
\* ever swallowed.
C9_AppendErrorTaxonomy ==
    [][\A k \in FaultKeys : \A v \in Values :
          (/\ outcome'.op = "append_val" /\ outcome'.args = <<k, v>>
           /\ inst[outcome'.slot].kind = "sqlite"
           /\ inst[outcome'.slot].config.serializer # "joblib")
          => LET answer == EngineAnswer(outcome'.slot, k, v).raised
             IN /\ answer = "IntegrityError"
                     => /\ outcome'.raised = Returned
                        /\ outcome'.swallowed = "IntegrityError"
                        /\ sql_db' = sql_db
                /\ answer \notin {Returned, "IntegrityError"}
                     => /\ outcome'.raised = answer
                        /\ outcome'.swallowed = Returned
                        /\ sql_db' = sql_db
                /\ answer = Returned
                     => /\ outcome'.raised = Returned
                        /\ outcome'.swallowed = Returned
      ]_vars

\* C9 witness: a duplicate insert has been swallowed, and an append_val on a
\* dropped table has just raised the engine's error.
C9_Witness ==
    /\ <<Returned, "IntegrityError">> \in seen
    /\ outcome.op = "append_val"
    /\ outcome.raised = "OperationalError"
    /\ inst[outcome.slot].config.table
           \notin DOMAIN sql_db[inst[outcome.slot].config.connection]

\* The errors the code raises for an unusable configuration: ValueError from
\* storage(), ImportError from RedisStorage.__init__.
ConfigurationErrors == {"ValueError", "ImportError"}

\* C10: storage(config, index) returns the in-process store for 'dict', the
\* key-value backend for 'redis' (its client library being available) and
\* the relational backend for 'sqlite'; for an absent descriptor or one that
\* names no recognized kind it ends in a configuration error and produces no
\* instance.
C10_FactoryDispatch ==
    outcome.op = "storage"
    => LET d == outcome.args[1]
           made == inst[outcome.slot]
       IN IF d.ty = "NoneType"
          THEN outcome.raised \in ConfigurationErrors /\ made = NoInst
          ELSE IF "dict" \in DOMAIN d.map
          THEN outcome.raised = Returned /\ made.kind = "dict"
          ELSE IF "redis" \in DOMAIN d.map
          THEN IF libs.redis
               THEN outcome.raised = Returned /\ made.kind = "redis"
               ELSE outcome.raised \in ConfigurationErrors /\ made = NoInst
          ELSE IF "sqlite" \in DOMAIN d.map
          THEN outcome.raised = Returned /\ made.kind = "sqlite"
          ELSE outcome.raised \in ConfigurationErrors /\ made = NoInst

\* The error of calling an operation a library does not have:
\* self.serializer.dumps / loads when the serializer is the joblib module.
LibraryFailures == {"AttributeError"}

\* The descriptor makes storage() construct the key-value backend.
NamesRedis(d) ==
    d.ty = "dict" /\ "dict" \notin DOMAIN d.map /\ "redis" \in DOMAIN d.map

\* C11: a backend whose client library is not importable fails in storage()
\* with a configuration error, and no append_val or get_list of a constructed
\* instance ever fails because a required library (the key-value client, or
\* the serializer chosen by the availability fallback) cannot perform its
\* operation.
C11_FailAtConstruction ==
    /\ (outcome.op = "storage" /\ NamesRedis(outcome.args[1]) /\ ~libs.redis)
          => (outcome.raised \in ConfigurationErrors
              /\ inst[outcome.slot] = NoInst)
    /\ \A s \in Constructed :
          /\ (outcome.op = "append_val" /\ outcome.slot = s)
                => outcome.raised \notin LibraryFailures
          /\ \A k \in QueryKeys :
                get_list(s, k, "None").raised \notin LibraryFailures

\* The descriptor makes storage() construct the relational backend.
NamesSqlite(d) ==
    /\ d.ty = "dict"
    /\ "dict" \notin DOMAIN d.map /\ "redis" \notin DOMAIN d.map
    /\ "sqlite" \in DOMAIN d.map

\* C12: a relational backend asked for with any index, zero or not, is
\* constructed; the table its construction creates is the one named from the
\* base table name and the index; and that is the table append_val, get_list
\* and keys of the instance address, so it exists whenever they run.
C12_TableConsistency ==
    \A s \in Slots :
        (requested[s].made /\ NamesSqlite(requested[s].config))
        => /\ requested[s].raised = Returned
           /\ inst[s].kind = "sqlite"
           /\ LET ref == CreatedTableRef(inst[s].config.table,
                                         requested[s].index)
              IN /\ SqlIsTableName(ref)
                 /\ ref[1] = inst[s].config.table
                 /\ ref[1] \in DOMAIN sql_db[inst[s].config.connection]

\* The characters of key at positions 0, 2, 4, ... followed by those at
\* positions 1, 3, 5, ... (positions counted from 0).
Interleaved(key) ==
    LET evens == (Len(key) + 1) \div 2
    IN [i \in 1..Len(key) |->
           IF i <= evens THEN key[2 * i - 1] ELSE key[2 * (i - evens)]]

\* The rows of the table of the relational instance in slot s.
StoredRows(s) ==
    sql_db[inst[s].config.connection][inst[s].config.table].rows

LevelsInstance(s) ==
    /\ inst[s].kind = "sqlite"
    /\ enabled_levels(inst[s])
    /\ inst[s].config.table \in DOMAIN sql_db[inst[s].config.connection]

\* C13: every row stored for a bucket key of length L (odd L and L < 2
\* included) holds the key itself as its High key, the first floor(0.75 L)
\* characters of the interleaved key as its Medium key and the first
\* floor(0.5 L) characters of the interleaved key as its Low key.
C13_KeyDerivation ==
    \A s \in Slots :
        LevelsInstance(s)
        => /\ \A k \in AppendedKeys(s) :
                 \E i \in DOMAIN StoredRows(s) : StoredRows(s)[i]["key_high"] = k
           /\ \A i \in DOMAIN StoredRows(s) :
                 LET row == StoredRows(s)[i]
                     k == row["key_high"]
                     L == Len(k)
                 IN /\ k \in AppendedKeys(s)
                    /\ row["key_medium"]
                           = SubSeq(Interleaved(k), 1, (3 * L) \div 4)
                    /\ row["key_low"] = SubSeq(Interleaved(k), 1, L \div 2)

\* C13 witness: rows were stored for a key of odd length above 2, for a key
\* shorter than 2 and for a key of even length.
C13_Witness ==
    \E s \in Slots :
        /\ LevelsInstance(s)
        /\ \E a, b, c \in AppendedKeys(s) :
              Len(a) % 2 = 1 /\ Len(a) > 2 /\ Len(b) < 2 /\ Len(c) = 4

\* The level-derived key of a bucket key: the key for High, and the first
\* floor(0.75 L) resp. floor(0.5 L) characters of the interleaved key for
\* Medium and Low.
DerivedKey(k, level) ==
    CASE level = "high" -> k
      [] level = "medium" -> SubSeq(Interleaved(k), 1, (3 * Len(k)) \div 4)
      [] OTHER -> SubSeq(Interleaved(k), 1, Len(k) \div 2)

\* C14: on the relational backend with levels enabled, keys(level) lists, for
\* each of High, Medium and Low, exactly the level-derived keys of the bucket
\* keys appended, each once, and get_list(level-derived key of k, level)
\* contains v for every appended pair (k, v).
C14_DerivedKeysStored ==
    \A s \in Slots : \A l \in LevelSet :
        LevelsInstance(s)
        => /\ keys(s, l).raised = Returned
           /\ NoDuplicates(keys(s, l).list)
           /\ Range(keys(s, l).list)
                  = {DerivedKey(k, l) : k \in AppendedKeys(s)}
           /\ \A a \in appended :
                 a[1] = s
                 => /\ get_list(s, DerivedKey(a[2], l), l).raised = Returned
                    /\ a[3] \in Range(get_list(s, DerivedKey(a[2], l), l).list)

\* C15: on every backend (the relational one read at the default level) a
\* call append_val(k, v) leaves get_list(k2) as it was for every key string
\* k2 other than k, and keys() afterwards is keys() before, with at most k
\* added.
C15_AppendFrame ==
    [][\A s \in Slots : \A k \in BucketKeys :
          (/\ outcome'.op = "append_val"
           /\ outcome'.slot = s /\ outcome'.args[1] = k)
          => /\ \A k2 \in QueryKeys \ {k} :
                   /\ get_list(s, k2, "None")'.raised
                          = get_list(s, k2, "None").raised
                   /\ SeqBag(get_list(s, k2, "None").list)'
                          = SeqBag(get_list(s, k2, "None").list)
             /\ Range(keys(s, "None").list) \subseteq Range(keys(s, "None").list)'
             /\ Range(keys(s, "None").list)'
                    \subseteq Range(keys(s, "None").list) \cup {k}
      ]_vars

\* seq is the start of other.
IsPrefix(seq, other) ==
    Len(seq) <= Len(other) /\ seq = SubSeq(other, 1, Len(seq))

\* C16: on the relational backend with levels enabled, the Low key stored
\* for a bucket key is the start of its Medium key; two stored bucket keys of
\* one length with equal Medium keys have equal Low keys; and for every
\* inserted key k every value get_list(medium(k), Medium) returns is also
\* returned by get_list(low(k), Low).
C16_LevelChain ==
    \A s \in Slots :
        LevelsInstance(s)
        => /\ \A i \in DOMAIN StoredRows(s) :
                 IsPrefix(StoredRows(s)[i]["key_low"],
                          StoredRows(s)[i]["key_medium"])
           /\ \A i, j \in DOMAIN StoredRows(s) :
                 (/\ Len(StoredRows(s)[i]["key_high"])
                        = Len(StoredRows(s)[j]["key_high"])
                  /\ StoredRows(s)[i]["key_medium"]
                        = StoredRows(s)[j]["key_medium"])
                 => StoredRows(s)[i]["key_low"] = StoredRows(s)[j]["key_low"]
           /\ \A k \in AppendedKeys(s) :
                 /\ get_list(s, DerivedKey(k, "medium"), "medium").raised
                        = Returned
                 /\ get_list(s, DerivedKey(k, "low"), "low").raised = Returned
                 /\ Range(get_list(s, DerivedKey(k, "medium"), "medium").list)
                      \subseteq
                    Range(get_list(s, DerivedKey(k, "low"), "low").list)

\* C16 witness: three keys of one length were stored, two of them sharing
\* the Medium key and all three the Low key, so the Low read returns more
\* than the Medium read.
C16_Witness ==
    \E s \in Slots :
        /\ LevelsInstance(s)
        /\ {K0000, K0001, K0100} \subseteq AppendedKeys(s)
        /\ Len(get_list(s, DerivedKey(K0000, "medium"), "medium").list) = 2
        /\ Len(get_list(s, DerivedKey(K0000, "low"), "low").list) = 3

\* The backend in slot s does not use levels: the in-process store, the
\* key-value backend, or the relational backend with levels disabled.
LevelsNotInUse(s) ==
    inst[s].kind \in {"dict", "redis"}
    \/ (inst[s].kind = "sqlite" /\ ~enabled_levels(inst[s]))

\* C17: on a backend that does not use levels get_list(k, level) is
\* get_list(k) and keys(level) is keys() for every level, High, Medium, Low
\* or omitted; on the relational backend with levels enabled an omitted
\* level reads as High.
C17_LevelInert ==
    \A s \in Constructed :
        /\ LevelsNotInUse(s)
              => \A l \in LevelArgs :
                    /\ keys(s, l) = keys(s, "None")
                    /\ \A k \in QueryKeys :
                          get_list(s, k, l) = get_list(s, k, "None")
        /\ ~LevelsNotInUse(s)
              => /\ keys(s, "None") = keys(s, "high")
                 /\ \A k \in QueryKeys :
                       get_list(s, k, "None") = get_list(s, k, "high")

====
